---- MODULE Spec2Model ----
(***************************************************************************)
(* gitpr: the forge layer (src/gitpr/forges.py) and the command layer      *)
(* (src/gitpr/main.py).                                                    *)
(*                                                                         *)
(* Spec     the forge clients GitHubForge / GitLabForge acting on one      *)
(*          hosted repository (its pull or merge requests).                *)
(* SpecCli  the typer commands of main.py acting on the application        *)
(*          directory (key file, config file) and on a GitHub repository.  *)
(*                                                                         *)
(* Text is modelled as a sequence of characters, so that prefixing and     *)
(* containment are computed, not assumed.                                  *)
(***************************************************************************)
EXTENDS Integers, Sequences, FiniteSets, TLC

VARIABLES
    source,     \* forge layer: which provider the client was built for
    repo,       \* forge layer: the provider's raw requests, repo[n] has number n
    calls,      \* the provider API calls made by the last operation, in order
    ret,        \* the last operation: its name, arguments, exception, return value
    ops,        \* operations (forge layer) or commands (command layer) started
    pc,         \* command layer: where the running command stands
    cmd,        \* command layer: the running command, its arguments and locals
    exit,       \* command layer: exit code of the last command, -1 while one runs
    keyFile,    \* KEY_PATH: "absent" or the key it holds
    configFile, \* CONFIG_PATH: absent or the JSON object it holds
    branches,   \* command layer: the branch refs of the GitHub repository
    configured  \* history: per base_url, the entry the latest login for it stored

forgeVars == <<source, repo, calls, ret, ops>>

cliVars == <<pc, cmd, exit, keyFile, configFile, branches, configured>>

vars == <<source, repo, calls, ret, ops,
          pc, cmd, exit, keyFile, configFile, branches, configured>>

-----------------------------------------------------------------------------
(* Bounds *)

\* Requests a repository holds when a forge client is built for it.
MaxPRs == 2
\* Forge operations performed on it.
MaxOps == 1
\* Commands entered in a session of the command layer.
MaxCmds == 2

-----------------------------------------------------------------------------
(* Text *)

DraftPrefix == <<"D", "r", "a", "f", "t", ":", " ">>

ApprovedPrefix ==
    <<"U+2705", " ", "A", "p", "p", "r", "o", "v", "e", "d", ":", " ">>

RequestChangesPrefix ==
    <<"U+26D4", " ", "R", "e", "q", "u", "e", "s", "t", "i", "n", "g", " ",
      "C", "h", "a", "n", "g", "e", "s", ":", " ">>

\* Python's None against a str argument: an argument is given or not.
None == [given |-> FALSE, text |-> <<>>]

Some(t) == [given |-> TRUE, text |-> t]

\* Python truthiness of an Optional[str]: None and "" are both falsy.
Truthy(a) == a.given /\ a.text # <<>>

Reverse(s) == [i \in 1..Len(s) |-> s[Len(s) + 1 - i]]

-----------------------------------------------------------------------------
(* Input domains *)

Providers == {"github", "gitlab"}

Branches == {"feat", "fix"}

Titles == {<<"a">>, <<"b">>}

Bodies == {<<>>, <<"l", "g">>}

Events == {"APPROVE", "REQUEST_CHANGES", "COMMENT"}

\* The raw state strings of the two providers; GitHub reports a merged pull
\* request as state "closed" with the flag merged set.
RawStates(src) ==
    IF src = "github"
    THEN {[state |-> "open", merged |-> FALSE],
          [state |-> "closed", merged |-> FALSE],
          [state |-> "closed", merged |-> TRUE]}
    ELSE {[state |-> "opened", merged |-> FALSE],
          [state |-> "closed", merged |-> FALSE],
          [state |-> "merged", merged |-> TRUE]}

RawPR(title, body, st, head, draft) ==
    [title |-> title, body |-> body, state |-> st.state, merged |-> st.merged,
     head_ref |-> head, draft |-> draft, approved |-> FALSE,
     notes |-> <<>>, reviews |-> <<>>]

\* The requests a repository may already hold when a client is built for it;
\* an open merge request may already carry the user's approval.
InitialPRs(src) ==
    {RawPR(<<"a">>, <<>>, st, h, FALSE) : st \in RawStates(src), h \in Branches}
        \cup {[RawPR(<<"a">>, <<>>, st, h, FALSE) EXCEPT !.approved = TRUE] :
                 st \in {x \in RawStates(src) : x.state = "opened"}, h \in Branches}

InitialRepos(src) ==
    UNION {[1..n -> InitialPRs(src)] : n \in 0..MaxPRs}

-----------------------------------------------------------------------------
(* Data model *)

StandardPR(raw_obj, number, src) ==
    IF src = "github"
    THEN [source |-> src, number |-> number, title |-> raw_obj.title,
          body |-> raw_obj.body, state |-> raw_obj.state,
          merged |-> raw_obj.merged, head_ref |-> raw_obj.head_ref]
    ELSE [source |-> src, number |-> number, title |-> raw_obj.title,
          body |-> raw_obj.body, state |-> raw_obj.state,
          merged |-> (raw_obj.state = "merged"), head_ref |-> raw_obj.head_ref]

\* What an operation of a forge client leaves behind.
Returns(r, cs, value) ==
    [repo |-> r, calls |-> cs, raised |-> "none", value |-> value]

Raises(r, cs, exc) ==
    [repo |-> r, calls |-> cs, raised |-> exc, value |-> <<>>]

-----------------------------------------------------------------------------
(* GitHub implementation *)

GitHubForge_create_pr(r, title, body, src, target, draft) ==
    LET raw == RawPR(title, body, [state |-> "open", merged |-> FALSE], src, draft)
        call == [api |-> "create_pull", title |-> title, body |-> body,
                 head |-> src, base |-> target, draft |-> draft]
    IN  Returns(Append(r, raw), <<call>>, StandardPR(raw, Len(r) + 1, "github"))

GitHubForge_get_pr(r, number) ==
    LET call == [api |-> "get_pull", number |-> number]
    IN  IF number \in DOMAIN r
        THEN Returns(r, <<call>>, StandardPR(r[number], number, "github"))
        ELSE Raises(r, <<call>>, "UnknownObjectException")

\* Mutant: tests "is not None" where the code tests truthiness, so an empty
\* string overwrites the stored field.
GitHubForge_edit_pr_NotNone(r, number, title, body) ==
    LET get == [api |-> "get_pull", number |-> number]
        keys == (IF title.given THEN {"title"} ELSE {})
                    \cup (IF body.given THEN {"body"} ELSE {})
        kwargs == [k \in keys |-> IF k = "title" THEN title.text ELSE body.text]
        edit == [api |-> "edit", number |-> number, kwargs |-> kwargs]
    IN  IF number \in DOMAIN r
        THEN Returns([r EXCEPT ![number].title =
                                   IF "title" \in keys THEN kwargs["title"] ELSE @,
                               ![number].body =
                                   IF "body" \in keys THEN kwargs["body"] ELSE @],
                     <<get, edit>>, <<>>)
        ELSE Raises(r, <<get>>, "UnknownObjectException")

GitHubForge_edit_pr(r, number, title, body) ==
    LET get == [api |-> "get_pull", number |-> number]
        keys == (IF Truthy(title) THEN {"title"} ELSE {})
                    \cup (IF Truthy(body) THEN {"body"} ELSE {})
        kwargs == [k \in keys |-> IF k = "title" THEN title.text ELSE body.text]
        edit == [api |-> "edit", number |-> number, kwargs |-> kwargs]
    IN  IF number \in DOMAIN r
        THEN Returns([r EXCEPT ![number].title =
                                   IF "title" \in keys THEN kwargs["title"] ELSE @,
                               ![number].body =
                                   IF "body" \in keys THEN kwargs["body"] ELSE @],
                     <<get, edit>>, <<>>)
        ELSE Raises(r, <<get>>, "UnknownObjectException")

GitHubForge_comment(r, number, body) ==
    LET get == [api |-> "get_pull", number |-> number]
        post == [api |-> "create_issue_comment", number |-> number, body |-> body]
    IN  IF number \in DOMAIN r
        THEN Returns([r EXCEPT ![number].notes = Append(@, body)], <<get, post>>, <<>>)
        ELSE Raises(r, <<get>>, "UnknownObjectException")

GitHubForge_submit_review(r, number, event, body) ==
    LET get == [api |-> "get_pull", number |-> number]
        post == [api |-> "create_review", number |-> number,
                 event |-> event, body |-> body]
    IN  IF number \in DOMAIN r
        THEN Returns([r EXCEPT ![number].reviews =
                                   Append(@, [event |-> event, body |-> body])],
                     <<get, post>>, <<>>)
        ELSE Raises(r, <<get>>, "UnknownObjectException")

\* get_pulls(state='closed') lists newest first; the comprehension keeps the
\* order and every element whose merged flag is set.
GitHubForge_find_merged_branches(r) ==
    LET pulls == SelectSeq(Reverse(r), LAMBDA p : p.state = "closed")
        kept == SelectSeq(pulls, LAMBDA p : p.merged)
    IN  Returns(r, <<[api |-> "get_pulls", state |-> "closed"]>>,
                [i \in 1..Len(kept) |-> kept[i].head_ref])

-----------------------------------------------------------------------------
(* GitLab implementation *)

\* Mutant: the draft intent is dropped instead of encoded in the title.
GitLabForge_create_pr_NoPrefix(r, title, body, src, target, draft) ==
    LET raw == RawPR(title, body, [state |-> "opened", merged |-> FALSE], src, FALSE)
        call == [api |-> "mergerequests.create", source_branch |-> src,
                 target_branch |-> target, title |-> title, description |-> body]
    IN  Returns(Append(r, raw), <<call>>, StandardPR(raw, Len(r) + 1, "gitlab"))

GitLabForge_create_pr(r, title, body, src, target, draft) ==
    LET title2 == IF draft THEN DraftPrefix \o title ELSE title
        raw == RawPR(title2, body, [state |-> "opened", merged |-> FALSE], src, FALSE)
        call == [api |-> "mergerequests.create", source_branch |-> src,
                 target_branch |-> target, title |-> title2, description |-> body]
    IN  Returns(Append(r, raw), <<call>>, StandardPR(raw, Len(r) + 1, "gitlab"))

GitLabForge_get_pr(r, number) ==
    LET call == [api |-> "mergerequests.get", number |-> number]
    IN  IF number \in DOMAIN r
        THEN Returns(r, <<call>>, StandardPR(r[number], number, "gitlab"))
        ELSE Raises(r, <<call>>, "GitlabGetError")

\* mr.save() sends the attributes assigned since the object was fetched.
GitLabForge_edit_pr(r, number, title, body) ==
    LET get == [api |-> "mergerequests.get", number |-> number]
        keys == (IF Truthy(title) THEN {"title"} ELSE {})
                    \cup (IF Truthy(body) THEN {"description"} ELSE {})
        updated == [k \in keys |-> IF k = "title" THEN title.text ELSE body.text]
        save == [api |-> "save", number |-> number, kwargs |-> updated]
    IN  IF number \in DOMAIN r
        THEN Returns([r EXCEPT ![number].title =
                                   IF "title" \in keys THEN updated["title"] ELSE @,
                               ![number].body =
                                   IF "description" \in keys
                                   THEN updated["description"] ELSE @],
                     <<get, save>>, <<>>)
        ELSE Raises(r, <<get>>, "GitlabGetError")

GitLabForge_comment(r, number, body) ==
    LET get == [api |-> "mergerequests.get", number |-> number]
        post == [api |-> "notes.create", number |-> number, body |-> body]
    IN  IF number \in DOMAIN r
        THEN Returns([r EXCEPT ![number].notes = Append(@, body)], <<get, post>>, <<>>)
        ELSE Raises(r, <<get>>, "GitlabGetError")

\* Mutant: the approve call is not guarded, so its failure propagates.
GitLabForge_submit_review_Unguarded(r, number, event, body, accept) ==
    LET get == [api |-> "mergerequests.get", number |-> number]
    IN  IF number \notin DOMAIN r
        THEN Raises(r, <<get>>, "GitlabGetError")
        ELSE IF event = "APPROVE"
        THEN LET ok == accept /\ ~r[number].approved
                 approve == [api |-> "approve", number |-> number, ok |-> ok]
                 text == ApprovedPrefix \o body
                 post == [api |-> "notes.create", number |-> number, body |-> text]
             IN  IF ok
                 THEN Returns([r EXCEPT ![number].approved = TRUE,
                                        ![number].notes = Append(@, text)],
                              <<get, approve, post>>, <<>>)
                 ELSE Raises(r, <<get, approve>>, "GitlabAuthenticationError")
        ELSE LET prefix == IF event = "REQUEST_CHANGES"
                           THEN RequestChangesPrefix ELSE <<>>
                 text == prefix \o body
                 post == [api |-> "notes.create", number |-> number, body |-> text]
             IN  Returns([r EXCEPT ![number].notes = Append(@, text)],
                         <<get, post>>, <<>>)

\* accept: whether the provider would accept an approval of a request that
\* is not yet approved; an approved request always rejects a second approval.
GitLabForge_submit_review(r, number, event, body, accept) ==
    LET get == [api |-> "mergerequests.get", number |-> number]
    IN  IF number \notin DOMAIN r
        THEN Raises(r, <<get>>, "GitlabGetError")
        ELSE IF event = "APPROVE"
        THEN LET ok == accept /\ ~r[number].approved
                 approve == [api |-> "approve", number |-> number, ok |-> ok]
                 text == ApprovedPrefix \o body
                 post == [api |-> "notes.create", number |-> number, body |-> text]
             IN  Returns([r EXCEPT ![number].approved = @ \/ ok,
                                   ![number].notes = Append(@, text)],
                         <<get, approve, post>>, <<>>)
        ELSE LET prefix == IF event = "REQUEST_CHANGES"
                           THEN RequestChangesPrefix ELSE <<>>
                 text == prefix \o body
                 post == [api |-> "notes.create", number |-> number, body |-> text]
             IN  Returns([r EXCEPT ![number].notes = Append(@, text)],
                         <<get, post>>, <<>>)

\* mergerequests.list(state='merged') lists newest first.
GitLabForge_find_merged_branches(r) ==
    LET mrs == SelectSeq(Reverse(r), LAMBDA mr : mr.state = "merged")
    IN  Returns(r, <<[api |-> "mergerequests.list", state |-> "merged"]>>,
                [i \in 1..Len(mrs) |-> mrs[i].head_ref])

-----------------------------------------------------------------------------
(* The forge layer as a state machine: one action per Forge method *)

NoCall == [op |-> "none", args |-> <<>>, raised |-> "none", value |-> <<>>]

NoConfig == [exists |-> FALSE, complete |-> FALSE,
             token |-> [key |-> "absent", plain |-> ""],
             base_url |-> "", slack_webhook |-> "None"]

NoCmd == [name |-> "none", repo_arg |-> FALSE, slug |-> <<>>, number |-> 0,
          branch |-> "", draft |-> FALSE, config |-> NoConfig, title |-> <<>>,
          body |-> <<>>, is_merged |-> FALSE]

Init ==
    /\ source \in Providers
    /\ repo \in InitialRepos(source)
    /\ calls = <<>>
    /\ ret = NoCall
    /\ ops = 0
    /\ pc = "idle"
    /\ cmd = NoCmd
    /\ exit = 0
    /\ keyFile = "absent"
    /\ configFile = NoConfig
    /\ branches = {}
    /\ configured = {}

Do(res, op, args) ==
    /\ ops < MaxOps
    /\ ops' = ops + 1
    /\ repo' = res.repo
    /\ calls' = res.calls
    /\ ret' = [op |-> op, args |-> args, raised |-> res.raised, value |-> res.value]
    /\ UNCHANGED source
    /\ UNCHANGED cliVars

Numbers == 1..(Len(repo) + 1)

TitleArgs == {None, Some(<<>>), Some(<<"b">>)}

BodyArgs == {None, Some(<<>>), Some(<<"l", "g">>)}

create_pr ==
    /\ Len(repo) < MaxPRs
    /\ \E title \in Titles, body \in Bodies, src \in Branches, draft \in BOOLEAN :
          Do(IF source = "github"
             THEN GitHubForge_create_pr(repo, title, body, src, "main", draft)
             ELSE GitLabForge_create_pr(repo, title, body, src, "main", draft),
             "create_pr",
             [title |-> title, body |-> body, source |-> src,
              target |-> "main", draft |-> draft])

get_pr ==
    \E number \in Numbers :
        Do(IF source = "github"
           THEN GitHubForge_get_pr(repo, number)
           ELSE GitLabForge_get_pr(repo, number),
           "get_pr", [number |-> number])

edit_pr ==
    \E number \in Numbers, title \in TitleArgs, body \in BodyArgs :
        Do(IF source = "github"
           THEN GitHubForge_edit_pr(repo, number, title, body)
           ELSE GitLabForge_edit_pr(repo, number, title, body),
           "edit_pr", [number |-> number, title |-> title, body |-> body])

comment ==
    \E number \in Numbers :
        Do(IF source = "github"
           THEN GitHubForge_comment(repo, number, <<"l", "g">>)
           ELSE GitLabForge_comment(repo, number, <<"l", "g">>),
           "comment", [number |-> number, body |-> <<"l", "g">>])

submit_review ==
    \E number \in Numbers, event \in Events, accept \in BOOLEAN :
        Do(IF source = "github"
           THEN GitHubForge_submit_review(repo, number, event, <<"l", "g">>)
           ELSE GitLabForge_submit_review(repo, number, event, <<"l", "g">>, accept),
           "submit_review",
           [number |-> number, event |-> event, body |-> <<"l", "g">>])

find_merged_branches ==
    Do(IF source = "github"
       THEN GitHubForge_find_merged_branches(repo)
       ELSE GitLabForge_find_merged_branches(repo),
       "find_merged_branches", <<>>)

Next ==
    \/ create_pr
    \/ get_pr
    \/ edit_pr
    \/ comment
    \/ submit_review
    \/ find_merged_branches

Spec == Init /\ [][Next]_vars

-----------------------------------------------------------------------------
(* Command layer: security and encryption helpers *)

Keys == {"k1", "k2"}

PublicUrl == "https://api.github.com"

EnterpriseDomain == "github.acme.com"

Webhook == "https://hooks.example/T1"

\* A key Fernet.generate_key() may return: random, so never the key an
\* existing ciphertext was made with.
FreshKeys(cfg) == Keys \ {cfg.token.key}

\* fresh: the key generate_key() returns if the key file is absent. The
\* failure of chmod is swallowed and changes nothing of the result.
load_or_create_key(kf, fresh) ==
    IF kf = "absent"
    THEN [file |-> fresh, key |-> fresh]
    ELSE [file |-> kf, key |-> kf]

\* A Fernet token names (through its HMAC) the key that made it.
encrypt_token(token, kf, fresh) ==
    LET k == load_or_create_key(kf, fresh)
    IN  [file |-> k.file, ok |-> k.key \in Keys,
         value |-> [key |-> k.key, plain |-> token]]

decrypt_token(encrypted_token, kf, fresh) ==
    LET k == load_or_create_key(kf, fresh)
    IN  [file |-> k.file,
         ok |-> encrypted_token.key = k.key,
         value |-> encrypted_token.plain]

ConfigData(encrypted_token, base_url, slack_webhook) ==
    [exists |-> TRUE, complete |-> TRUE, token |-> encrypted_token,
     base_url |-> base_url, slack_webhook |-> slack_webhook]

\* The provider entry a config record holds.
Entry(cfg) == [base_url |-> cfg.base_url, token |-> cfg.token]

-----------------------------------------------------------------------------
(* Command layer: repository context *)

\* The characters \w matches, and the class [\w-] of the pattern.
WordChars ==
    {"a", "b", "c", "d", "e", "f", "g", "h", "i", "j", "k", "l", "m", "n", "o",
     "p", "q", "r", "s", "t", "u", "v", "w", "x", "y", "z", "0", "1", "2", "3",
     "4", "5", "6", "7", "8", "9", "_"}

IsSlugChar(c) == c \in WordChars \cup {"-"}

\* The slug a user passes as the org/repo argument.
RepoSlug ==
    <<"a", "c", "m", "e", "/", "w", "i", "d", "g", "e", "t", "s">>

SshUrl ==
    <<"g", "i", "t", "@", "h", "o", "s", "t", ":", "a", "c", "m", "e", "/",
      "w", "i", "d", "g", "e", "t", "s", ".", "g", "i", "t">>

HttpsUrl ==
    <<"h", "t", "t", "p", "s", ":", "/", "/", "h", "o", "s", "t", "/", "a",
      "c", "m", "e", "/", "w", "i", "d", "g", "e", "t", "s", ".", "g", "i",
      "t">>

HttpsUrlNoSuffix ==
    <<"h", "t", "t", "p", "s", ":", "/", "/", "h", "o", "s", "t", "/", "a",
      "c", "m", "e", "/", "w", "i", "d", "g", "e", "t", "s">>

TrailingSlashUrl ==
    <<"h", "t", "t", "p", "s", ":", "/", "/", "h", "o", "s", "t", "/", "a",
      "c", "m", "e", "/", "w", "i", "d", "g", "e", "t", "s", "/">>

DottedNameUrl ==
    <<"h", "t", "t", "p", "s", ":", "/", "/", "h", "o", "s", "t", "/", "a",
      "c", "m", "e", "/", "m", "y", ".", "r", "e", "p", "o", ".", "g", "i",
      "t">>

NoOwnerUrl ==
    <<"h", "o", "s", "t", ":", "w", "i", "d", "g", "e", "t", "s", ".", "g",
      "i", "t">>

RemoteUrls ==
    {SshUrl, HttpsUrl, HttpsUrlNoSuffix, TrailingSlashUrl, DottedNameUrl, NoOwnerUrl}

\* The working copy a command is run in: no git root above the directory, a
\* repository without a remote named origin, or origin's url.
WorkingCopies ==
    {[git_root |-> FALSE, origin |-> None], [git_root |-> TRUE, origin |-> None]}
        \cup {[git_root |-> TRUE, origin |-> Some(u)] : u \in RemoteUrls}

\* The last index of the longest run of [\w-] that starts at i; i - 1 if
\* there is none. A greedy [\w-]+ followed by a character outside the class
\* (or by the end) can only match this run.
SlugRun(text, i) ==
    LET ends == {j \in i..Len(text) : \A k \in i..j : IsSlugChar(text[k])}
    IN  IF ends = {} THEN i - 1
        ELSE CHOOSE j \in ends : \A k \in ends : k <= j

\* [:/]([\w-]+)/([\w-]+)(?:\.git)?$ matched with its first character at i.
PatternAt(text, i) ==
    LET owner_end == SlugRun(text, i + 1)
        name_end == SlugRun(text, owner_end + 2)
    IN  /\ text[i] \in {":", "/"}
        /\ owner_end >= i + 1
        /\ owner_end + 1 <= Len(text)
        /\ text[owner_end + 1] = "/"
        /\ name_end >= owner_end + 2
        /\ SubSeq(text, name_end + 1, Len(text)) \in {<<>>, <<".", "g", "i", "t">>}

\* re.search: the leftmost position the pattern matches at, and
\* f"{match.group(1)}/{match.group(2)}"; None if there is none.
SearchRemoteUrl(remote_url) ==
    LET hits == {i \in 1..Len(remote_url) : PatternAt(remote_url, i)}
    IN  IF hits = {} THEN None
        ELSE LET i == CHOOSE h \in hits : \A k \in hits : h <= k
                 owner_end == SlugRun(remote_url, i + 1)
                 name_end == SlugRun(remote_url, owner_end + 2)
             IN  Some(SubSeq(remote_url, i + 1, owner_end) \o <<"/">>
                          \o SubSeq(remote_url, owner_end + 2, name_end))

\* get_current_repo_context() in working copy wc: InvalidGitRepositoryError
\* and the AttributeError of a missing origin both return None.
RepoContext(wc) ==
    IF ~wc.git_root THEN [found |-> "no_git_root", slug |-> None]
    ELSE IF ~wc.origin.given THEN [found |-> "no_origin", slug |-> None]
    ELSE LET m == SearchRemoteUrl(wc.origin.text)
         IN  [found |-> IF m.given THEN "match" ELSE "no_match", slug |-> m]

-----------------------------------------------------------------------------
(* Command layer: state *)

Commands == {"login", "create", "edit", "comment", "diff", "review", "cleanup"}

PrCommands == {"edit", "comment", "diff", "review"}

\* The application directory and the repository as a session may find them:
\* no login yet, a login whose key file is intact, or a config whose key file
\* was since removed or replaced.
InitialDisks ==
    {[key |-> "absent", config |-> NoConfig]}
        \cup {[key |-> k, config |-> ConfigData([key |-> "k1", plain |-> "tok"], u, w)] :
                 k \in Keys \cup {"absent"},
                 u \in {PublicUrl, "https://" \o EnterpriseDomain \o "/api/v3"},
                 w \in {"None", Webhook}}

InitCli ==
    /\ source = "github"
    /\ repo \in UNION {[1..n -> {x \in InitialPRs("github") : x.head_ref = "feat"}] :
                          n \in 0..1}
    /\ calls = <<>>
    /\ ret = NoCall
    /\ ops = 0
    /\ pc = "idle"
    /\ cmd = NoCmd
    /\ exit = 0
    /\ \E d \in InitialDisks :
          /\ keyFile = d.key
          /\ configFile = d.config
          /\ configured = IF d.config.exists THEN {Entry(d.config)} ELSE {}
    /\ branches \in {{"main"}, {"main", "feat"}}

\* One more step of the running command.
Step(next, entries) ==
    /\ pc' = next
    /\ calls' = calls \o entries
    /\ exit' = exit

\* The command ends: raise typer.Exit(code), an uncaught exception (code 1),
\* or the end of the function (code 0).
Halt(code, entries) ==
    /\ pc' = "idle"
    /\ calls' = calls \o entries
    /\ exit' = code

\* A command line is entered.
Start ==
    /\ pc = "idle"
    /\ ops < MaxCmds
    /\ ops' = ops + 1
    /\ \E name \in Commands, repo_arg \in BOOLEAN, draft \in BOOLEAN,
          number \in 1..(Len(repo) + 1) :
          /\ name \notin PrCommands => number = 1
          /\ name # "create" => ~draft
          /\ name = "login" => ~repo_arg
          /\ cmd' = [NoCmd EXCEPT !.name = name, !.repo_arg = repo_arg,
                                 !.slug = IF repo_arg THEN RepoSlug ELSE <<>>,
                                 !.number = IF name \in PrCommands THEN number ELSE 0,
                                 !.branch = IF name = "cleanup" THEN "feat" ELSE "",
                                 !.draft = draft]
          /\ pc' = IF name = "login" THEN "login" ELSE "load_config"
    /\ calls' = <<>>
    /\ exit' = -1
    /\ UNCHANGED <<source, repo, ret, keyFile, configFile, branches, configured>>

-----------------------------------------------------------------------------
(* Command layer: login *)

login ==
    /\ pc = "login"
    /\ \E is_enterprise \in BOOLEAN, setup_slack \in BOOLEAN,
          fresh \in FreshKeys(configFile) :
          LET base_url == IF is_enterprise
                          THEN "https://" \o EnterpriseDomain \o "/api/v3"
                          ELSE PublicUrl
              enc == encrypt_token("tok", keyFile, fresh)
              slack_webhook == IF setup_slack THEN Webhook ELSE "None"
              config_data == ConfigData(enc.value, base_url, slack_webhook)
          IN  IF enc.ok
              THEN /\ keyFile' = enc.file
                   /\ configFile' = config_data
                   /\ configured' = {e \in configured : e.base_url # base_url}
                                        \cup {Entry(config_data)}
                   /\ Halt(0, <<[api |-> "encrypt_token"],
                                [api |-> "write_config", base_url |-> base_url]>>)
              ELSE /\ Halt(1, <<[api |-> "encrypt_token"]>>)
                   /\ UNCHANGED <<keyFile, configFile, configured>>
    /\ UNCHANGED <<source, repo, ret, ops, cmd, branches>>

-----------------------------------------------------------------------------
(* Command layer: what every other command does first *)

\* A missing file is reported and exits 1; a file json.load cannot parse
\* raises JSONDecodeError, which nothing catches: the process exits 1 too.
load_config ==
    /\ pc = "load_config"
    /\ IF ~configFile.exists \/ ~configFile.complete
       THEN /\ Halt(1, <<[api |-> "load_config", ok |-> FALSE]>>)
            /\ UNCHANGED cmd
       ELSE /\ Step("context", <<[api |-> "load_config", ok |-> TRUE]>>)
            /\ cmd' = [cmd EXCEPT !.config = configFile]
    /\ UNCHANGED <<source, repo, ret, ops, keyFile, configFile, branches, configured>>

\* Mutant: the caller does not test the result, and goes on with the empty
\* slug when the context is None.
get_current_repo_context_NoStop ==
    /\ pc = "context"
    /\ IF cmd.repo_arg
       THEN /\ Step("decrypt", <<>>)
            /\ UNCHANGED cmd
       ELSE \E wc \in WorkingCopies :
               LET ctx == RepoContext(wc)
               IN  /\ Step("decrypt",
                           <<[api |-> "repo_context", found |-> ctx.found]>>)
                   /\ cmd' = [cmd EXCEPT !.repo_arg = TRUE, !.slug = ctx.slug.text]
    /\ UNCHANGED <<source, repo, ret, ops, keyFile, configFile, branches, configured>>

\* if not repo_arg: repo_arg = get_current_repo_context()
\*     if not repo_arg: ...; raise typer.Exit(1)
get_current_repo_context ==
    /\ pc = "context"
    /\ IF cmd.repo_arg
       THEN /\ Step("decrypt", <<>>)
            /\ UNCHANGED cmd
       ELSE \E wc \in WorkingCopies :
               LET ctx == RepoContext(wc)
               IN  IF Truthy(ctx.slug)
                   THEN /\ Step("decrypt",
                                <<[api |-> "repo_context", found |-> ctx.found]>>)
                        /\ cmd' = [cmd EXCEPT !.repo_arg = TRUE,
                                              !.slug = ctx.slug.text]
                   ELSE /\ Halt(1, <<[api |-> "repo_context", found |-> ctx.found]>>)
                        /\ UNCHANGED cmd
    /\ UNCHANGED <<source, repo, ret, ops, keyFile, configFile, branches, configured>>

\* get_github_client, first half: the token is decrypted.
get_github_client_decrypt ==
    /\ pc = "decrypt"
    /\ \E fresh \in FreshKeys(cmd.config) :
          LET dec == decrypt_token(cmd.config.token, keyFile, fresh)
          IN  /\ keyFile' = dec.file
              /\ IF dec.ok
                 THEN Step("identity", <<[api |-> "decrypt_token", ok |-> TRUE]>>)
                 ELSE Halt(1, <<[api |-> "decrypt_token", ok |-> FALSE]>>)
    /\ UNCHANGED <<source, repo, ret, ops, cmd, configFile, branches, configured>>

\* Mutant: the 401 branch prints and falls through to "return g".
get_github_client_verify_NoExit ==
    /\ pc = "identity"
    /\ \E status \in {200, 401, 403} :
          IF status \in {200, 401}
          THEN Step(cmd.name, <<[api |-> "get_user", status |-> status]>>)
          ELSE Halt(1, <<[api |-> "get_user", status |-> status]>>)
    /\ UNCHANGED <<source, repo, ret, ops, cmd, keyFile, configFile, branches,
                   configured>>

\* get_github_client, second half: g.get_user().login. A 401 exits with code
\* 1; any other GithubException is raised again and ends the command.
get_github_client_verify ==
    /\ pc = "identity"
    /\ \E status \in {200, 401, 403} :
          IF status = 200
          THEN Step(cmd.name, <<[api |-> "get_user", status |-> status]>>)
          ELSE Halt(1, <<[api |-> "get_user", status |-> status]>>)
    /\ UNCHANGED <<source, repo, ret, ops, cmd, keyFile, configFile, branches,
                   configured>>

-----------------------------------------------------------------------------
(* Command layer: edit, comment, diff, review *)

\* try: repo = g.get_repo(repo_arg); pr = repo.get_pull(pr_number)
\* except GithubException: "PR #n not found", exit 1.
\* The provider answers 404 for a number it does not hold; it may also refuse
\* the repository (404, 403) or fail on a request it holds (500).
fetch_pull ==
    /\ pc \in PrCommands
    /\ \E repo_status \in {200, 404, 403}, fault \in BOOLEAN :
          LET pull_status == IF cmd.number \notin DOMAIN repo THEN 404
                             ELSE IF fault THEN 500 ELSE 200
              get_repo == [api |-> "get_repo", status |-> repo_status]
              get_pull == [api |-> "get_pull", status |-> pull_status,
                           number |-> cmd.number]
              not_found == [api |-> "print", msg |-> "pr_not_found",
                            number |-> cmd.number]
          IN  IF repo_status # 200
              THEN Halt(1, <<get_repo, not_found>>)
              ELSE IF pull_status # 200
              THEN Halt(1, <<get_repo, get_pull, not_found>>)
              ELSE Step("do_" \o cmd.name, <<get_repo, get_pull>>)
    /\ UNCHANGED <<source, repo, ret, ops, cmd, keyFile, configFile, branches,
                   configured>>

\* new_title defaults to pr.title; typer.edit returns None when the editor is
\* left without saving, and then the body is pr.body. pr.edit sends both.
do_edit ==
    /\ pc = "do_edit"
    /\ \E new_title \in {repo[cmd.number].title, <<"b">>},
          edited \in {None, Some(<<"l", "g">>)}, status \in {200, 403} :
          LET new_body == IF edited.given THEN edited.text ELSE repo[cmd.number].body
              call == [api |-> "edit", status |-> status, number |-> cmd.number]
          IN  IF status = 200
              THEN /\ repo' = [repo EXCEPT ![cmd.number].title = new_title,
                                           ![cmd.number].body = new_body]
                   /\ Halt(0, <<call>>)
              ELSE /\ UNCHANGED repo
                   /\ Halt(1, <<call>>)
    /\ UNCHANGED <<source, ret, ops, cmd, keyFile, configFile, branches, configured>>

do_comment ==
    /\ pc = "do_comment"
    /\ \E body \in Bodies, status \in {201, 403} :
          LET call == [api |-> "create_issue_comment", status |-> status,
                       number |-> cmd.number]
          IN  IF body = <<>>
              THEN /\ UNCHANGED repo
                   /\ Halt(0, <<>>)
              ELSE IF status = 201
              THEN /\ repo' = [repo EXCEPT ![cmd.number].notes = Append(@, body)]
                   /\ Halt(0, <<call>>)
              ELSE /\ UNCHANGED repo
                   /\ Halt(1, <<call>>)
    /\ UNCHANGED <<source, ret, ops, cmd, keyFile, configFile, branches, configured>>

do_diff ==
    /\ pc = "do_diff"
    /\ Halt(0, <<[api |-> "get_files", number |-> cmd.number]>>)
    /\ UNCHANGED <<source, repo, ret, ops, cmd, keyFile, configFile, branches,
                   configured>>

\* A GithubException of create_review is printed, not raised.
do_review ==
    /\ pc = "do_review"
    /\ \E action \in {"approve", "request", "comment", "other"}, msg \in Bodies,
          status \in {200, 422} :
          LET event == IF action = "approve" THEN "APPROVE"
                       ELSE IF action = "request" THEN "REQUEST_CHANGES"
                       ELSE "COMMENT"
              body == IF action = "approve" /\ msg = <<>>
                      THEN <<"L", "G", "T", "M", "!">> ELSE msg
              call == [api |-> "create_review", status |-> status,
                       number |-> cmd.number, event |-> event]
          IN  IF action = "other" \/ body = <<>>
              THEN /\ UNCHANGED repo
                   /\ Halt(0, <<>>)
              ELSE IF status = 200
              THEN /\ repo' = [repo EXCEPT ![cmd.number].reviews =
                                  Append(@, [event |-> event, body |-> body])]
                   /\ Halt(0, <<call>>)
              ELSE /\ UNCHANGED repo
                   /\ Halt(0, <<call>>)
    /\ UNCHANGED <<source, ret, ops, cmd, keyFile, configFile, branches, configured>>

-----------------------------------------------------------------------------
(* Command layer: create *)

create_get_repo ==
    /\ pc = "create"
    /\ \E status \in {200, 404} :
          IF status = 200
          THEN Step("create_compose", <<[api |-> "get_repo", status |-> status]>>)
          ELSE Halt(1, <<[api |-> "get_repo", status |-> status],
                         [api |-> "print", msg |-> "access_denied"]>>)
    /\ UNCHANGED <<source, repo, ret, ops, cmd, keyFile, configFile, branches,
                   configured>>

\* The title prompt, the template lookup and the editor; an empty body that
\* the user does not confirm ends the command with typer.Exit().
create_compose ==
    /\ pc = "create_compose"
    /\ \E title \in {<<"a">>}, body \in Bodies, confirm \in BOOLEAN :
          IF body = <<>> /\ ~confirm
          THEN /\ Halt(0, <<[api |-> "get_contents"]>>)
               /\ UNCHANGED cmd
          ELSE /\ Step("create_pull", <<[api |-> "get_contents"]>>)
               /\ cmd' = [cmd EXCEPT !.title = title, !.body = body]
    /\ UNCHANGED <<source, repo, ret, ops, keyFile, configFile, branches, configured>>

create_pull ==
    /\ pc = "create_pull"
    /\ \E status \in {201, 422} :
          LET call == [api |-> "create_pull", status |-> status,
                       number |-> Len(repo) + 1]
              made == GitHubForge_create_pr(repo, cmd.title, cmd.body, "feat",
                                            "main", cmd.draft)
          IN  IF status = 201
              THEN /\ repo' = made.repo
                   /\ Step("create_link", <<call>>)
              ELSE /\ UNCHANGED repo
                   /\ Halt(1, <<call>>)
    /\ UNCHANGED <<source, ret, ops, cmd, keyFile, configFile, branches, configured>>

\* Any failure while linking the issue is printed, not raised.
create_link_issue ==
    /\ pc = "create_link"
    /\ \E link \in {"declined", "no_match", "linked", "failed"} :
          Step("create_notify",
               IF link \in {"linked", "failed"}
               THEN <<[api |-> "issue_comment", ok |-> (link = "linked")]>>
               ELSE <<>>)
    /\ UNCHANGED <<source, repo, ret, ops, cmd, keyFile, configFile, branches,
                   configured>>

\* Mutant: the post is not guarded, so its exception ends the command.
create_notify_Unguarded ==
    /\ pc = "create_notify"
    /\ IF cmd.config.slack_webhook # "None"
       THEN \E outcome \in {"ok", "error", "timeout"} :
               Halt(IF outcome = "ok" THEN 0 ELSE 1,
                    <<[api |-> "slack_post", outcome |-> outcome]>>)
       ELSE Halt(0, <<>>)
    /\ UNCHANGED <<source, repo, ret, ops, cmd, keyFile, configFile, branches,
                   configured>>

\* requests.post(..., timeout=10) inside try/except: pass.
create_notify ==
    /\ pc = "create_notify"
    /\ IF cmd.config.slack_webhook # "None"
       THEN \E outcome \in {"ok", "error", "timeout"} :
               Halt(0, <<[api |-> "slack_post", outcome |-> outcome]>>)
       ELSE Halt(0, <<>>)
    /\ UNCHANGED <<source, repo, ret, ops, cmd, keyFile, configFile, branches,
                   configured>>

-----------------------------------------------------------------------------
(* Command layer: cleanup *)

cleanup_get_branch ==
    /\ pc = "cleanup"
    /\ \E repo_status \in {200, 404} :
          LET branch_status == IF cmd.branch \in branches THEN 200 ELSE 404
              get_repo == [api |-> "get_repo", status |-> repo_status]
              get_branch == [api |-> "get_branch", status |-> branch_status]
          IN  IF repo_status # 200
              THEN Halt(1, <<get_repo>>)
              ELSE IF branch_status # 200
              THEN Halt(1, <<get_repo, get_branch>>)
              ELSE Step("cleanup_check", <<get_repo, get_branch>>)
    /\ UNCHANGED <<source, repo, ret, ops, cmd, keyFile, configFile, branches,
                   configured>>

\* pulls = repo.get_pulls(state='closed', head=...); is_merged = any merged.
cleanup_check_merged ==
    /\ pc = "cleanup_check"
    /\ cmd' = [cmd EXCEPT !.is_merged =
                  \E n \in DOMAIN repo : /\ repo[n].state = "closed"
                                         /\ repo[n].head_ref = cmd.branch
                                         /\ repo[n].merged]
    /\ Step("cleanup_remote", <<[api |-> "get_pulls", state |-> "closed"]>>)
    /\ UNCHANGED <<source, repo, ret, ops, keyFile, configFile, branches, configured>>

\* Mutant: a merged branch is deleted without waiting for the answer.
cleanup_remote_AutoDeleteMerged ==
    /\ pc = "cleanup_remote"
    /\ \E answer \in BOOLEAN, status \in {204, 422} :
          LET confirm == [api |-> "confirm", what |-> "remote", answer |-> answer]
              delete == [api |-> "ref.delete", status |-> status,
                         branch |-> cmd.branch]
          IN  IF ~answer /\ ~cmd.is_merged
              THEN /\ UNCHANGED branches
                   /\ Step("cleanup_local", <<confirm>>)
              ELSE /\ branches' = IF status = 204
                                  THEN branches \ {cmd.branch} ELSE branches
                   /\ Step("cleanup_local", <<confirm, delete>>)
    /\ UNCHANGED <<source, repo, ret, ops, cmd, keyFile, configFile, configured>>

\* if typer.confirm(...): ref = repo.get_git_ref(...); ref.delete(); a
\* GithubException of either is printed, not raised.
cleanup_remote ==
    /\ pc = "cleanup_remote"
    /\ \E answer \in BOOLEAN, status \in {204, 422} :
          LET confirm == [api |-> "confirm", what |-> "remote", answer |-> answer]
              delete == [api |-> "ref.delete", status |-> status,
                         branch |-> cmd.branch]
          IN  IF ~answer
              THEN /\ UNCHANGED branches
                   /\ Step("cleanup_local", <<confirm>>)
              ELSE /\ branches' = IF status = 204
                                  THEN branches \ {cmd.branch} ELSE branches
                   /\ Step("cleanup_local", <<confirm, delete>>)
    /\ UNCHANGED <<source, repo, ret, ops, cmd, keyFile, configFile, configured>>

\* The local branch: no git folder, no such branch, declined, or
\* git branch -d / -D, whose failure is printed.
cleanup_local ==
    /\ pc = "cleanup_local"
    /\ \E local \in {"no_git_root", "absent", "declined", "deleted", "failed"} :
          Halt(0, IF local \in {"deleted", "failed"}
                  THEN <<[api |-> "git_branch",
                          flag |-> IF cmd.is_merged THEN "-d" ELSE "-D",
                          ok |-> (local = "deleted")]>>
                  ELSE <<>>)
    /\ UNCHANGED <<source, repo, ret, ops, cmd, keyFile, configFile, branches,
                   configured>>

NextCli ==
    \/ Start
    \/ login
    \/ load_config
    \/ get_current_repo_context
    \/ get_github_client_decrypt
    \/ get_github_client_verify
    \/ fetch_pull
    \/ do_edit
    \/ do_comment
    \/ do_diff
    \/ do_review
    \/ create_get_repo
    \/ create_compose
    \/ create_pull
    \/ create_link_issue
    \/ create_notify
    \/ cleanup_get_branch
    \/ cleanup_check_merged
    \/ cleanup_remote
    \/ cleanup_local

SpecCli == InitCli /\ [][NextCli]_vars

-----------------------------------------------------------------------------
(* Command layer: the process is killed *)

\* A file open(path, "w") has truncated and the write has not completed:
\* empty or cut short, in both cases not a JSON document.
TornConfig == [NoConfig EXCEPT !.exists = TRUE]

\* What "with open(KEY_PATH, "wb") as f: f.write(key)" leaves behind when the
\* process dies before, during or after it. The file is opened in place: no
\* temporary file, no rename. An existing key file is never opened for
\* writing.
KeyWriteOutcomes(kf, fresh) ==
    IF kf = "absent" THEN {"absent", "torn", fresh} ELSE {kf}

\* The same for "with open(CONFIG_PATH, "w") as f: json.dump(config_data, f)":
\* the previous content survives only if the open was not reached.
ConfigWriteOutcomes(cf, config_data) == {cf, TornConfig, config_data}

\* The provider entries a config file on disk holds.
Entries(cf) == IF cf.exists /\ cf.complete THEN {Entry(cf)} ELSE {}

\* The process dies (kill -9, power loss) somewhere inside the step it is
\* about to take. Only login and the key creation of decrypt_token write
\* files; login opens the config file only after encrypt_token has returned.
crash ==
    /\ pc # "idle"
    /\ pc' = "idle"
    /\ exit' = 137
    /\ calls' = calls \o <<[api |-> "crash", at |-> pc]>>
    /\ IF pc = "login"
       THEN \E is_enterprise \in BOOLEAN, fresh \in FreshKeys(configFile) :
               LET base_url == IF is_enterprise
                               THEN "https://" \o EnterpriseDomain \o "/api/v3"
                               ELSE PublicUrl
                   enc == encrypt_token("tok", keyFile, fresh)
                   config_data == ConfigData(enc.value, base_url, "None")
               IN  /\ keyFile' \in KeyWriteOutcomes(keyFile, fresh)
                   /\ configFile' \in IF keyFile' \in Keys
                                     THEN ConfigWriteOutcomes(configFile, config_data)
                                     ELSE {configFile}
                   /\ configured' = IF configFile' = configFile
                                    THEN configured
                                    ELSE Entries(configFile')
       ELSE IF pc = "decrypt"
       THEN /\ \E fresh \in FreshKeys(cmd.config) :
                  keyFile' \in KeyWriteOutcomes(keyFile, fresh)
            /\ UNCHANGED <<configFile, configured>>
       ELSE UNCHANGED <<keyFile, configFile, configured>>
    /\ UNCHANGED <<source, repo, ret, ops, cmd, branches>>

NextCrash ==
    \/ NextCli
    \/ crash

SpecCrash == InitCli /\ [][NextCrash]_vars

-----------------------------------------------------------------------------
(* Properties of the forge layer *)

Contains(text, part) ==
    \E i \in 0..(Len(text) - Len(part)) : SubSeq(text, i + 1, i + Len(part)) = part

Count(seq, x) == Cardinality({i \in DOMAIN seq : seq[i] = x})

CallsTo(api) == {i \in DOMAIN calls : calls[i].api = api}

\* C1: every normalized request (returned by get_pr or create_pr, for either
\* provider) satisfies merged => state = "merged".
C1_MergedImpliesStateMerged ==
    (ret.op \in {"get_pr", "create_pr"} /\ ret.raised = "none")
        => (ret.value.merged => ret.value.state = "merged")

ApproveFailed ==
    /\ ret.op = "submit_review"
    /\ source = "gitlab"
    /\ ret.args.event = "APPROVE"
    /\ \E i \in CallsTo("approve") : ~calls[i].ok

\* C2: GitLab submit_review(n, "APPROVE", body) whose native approve call
\* fails returns without raising, has created exactly one note, which
\* contains body and is the newest note of the request, and made the approve
\* attempt before the note creation.
C2_ApproveFailureDegradesToNote ==
    ApproveFailed =>
        /\ ret.raised = "none"
        /\ Cardinality(CallsTo("notes.create")) = 1
        /\ Cardinality(CallsTo("approve")) = 1
        /\ \A i \in CallsTo("approve"), j \in CallsTo("notes.create") :
              /\ i < j
              /\ Contains(calls[j].body, ret.args.body)
              /\ repo[ret.args.number].notes # <<>>
              /\ repo[ret.args.number].notes[Len(repo[ret.args.number].notes)]
                    = calls[j].body

C2_Witness_AlreadyApproved ==
    /\ ApproveFailed
    /\ repo[ret.args.number].approved
    /\ ret.args.body # <<>>

\* C3: find_merged_branches returns only source branches of merged requests
\* and holds the source branch of every merged request exactly once.
C3_MergedBranchesExactlyOnce ==
    ret.op = "find_merged_branches" =>
        /\ \A n \in DOMAIN repo :
              repo[n].merged => Count(ret.value, repo[n].head_ref) = 1
        /\ \A i \in DOMAIN ret.value :
              \E n \in DOMAIN repo : repo[n].merged /\ repo[n].head_ref = ret.value[i]

\* C4: create_pr with draft sends "Draft: " + title on GitLab, and the title
\* unchanged with the draft flag set on GitHub; without draft both providers
\* send the title unchanged. The created request holds what was sent.
C4_DraftEncoding ==
    ret.op = "create_pr" =>
        /\ Len(calls) = 1
        /\ source = "gitlab" =>
              /\ calls[1].title = IF ret.args.draft
                                  THEN DraftPrefix \o ret.args.title
                                  ELSE ret.args.title
              /\ repo[Len(repo)].title = calls[1].title
        /\ source = "github" =>
              /\ calls[1].title = ret.args.title
              /\ calls[1].draft = ret.args.draft
              /\ repo[Len(repo)].title = ret.args.title
              /\ repo[Len(repo)].draft = ret.args.draft

C4_Witness_GitLabDraft ==
    /\ ret.op = "create_pr"
    /\ source = "gitlab"
    /\ ret.args.draft
    /\ SubSeq(ret.value.title, 1, Len(DraftPrefix)) = DraftPrefix

\* C5: edit_pr changes exactly the fields whose argument is supplied and
\* non-empty; a field whose argument is None or "" keeps the value the
\* provider held before the call, and nothing else of the repository changes.
C5_EditChangesOnlySuppliedFields ==
    [][(ret'.op = "edit_pr" /\ ops' = ops + 1) =>
          LET a == ret'.args
              n == a.number
          IN  IF ret'.raised = "none"
              THEN /\ DOMAIN repo' = DOMAIN repo
                   /\ \A m \in DOMAIN repo \ {n} : repo'[m] = repo[m]
                   /\ repo'[n].title =
                         IF Truthy(a.title) THEN a.title.text ELSE repo[n].title
                   /\ repo'[n].body =
                         IF Truthy(a.body) THEN a.body.text ELSE repo[n].body
                   /\ [repo'[n] EXCEPT !.title = repo[n].title,
                                       !.body = repo[n].body] = repo[n]
              ELSE repo' = repo]_vars

C5_Witness_EmptyTitleKept ==
    /\ ret.op = "edit_pr"
    /\ ret.raised = "none"
    /\ ret.args.title = Some(<<>>)
    /\ Truthy(ret.args.body)
    /\ repo[ret.args.number].title # <<>>
    /\ repo[ret.args.number].body = ret.args.body.text

-----------------------------------------------------------------------------
(* Properties of the command layer *)

\* C6: after any sequence of login runs the config record holds the entry
\* (encrypted token and base URL) of every provider configured by an earlier
\* login.
C6_LoginKeepsOtherProviders ==
    pc = "idle" =>
        \A e \in configured : configFile.exists /\ Entry(configFile) = e

ConfirmedRemote(log) ==
    \E i \in DOMAIN log :
        log[i].api = "confirm" /\ log[i].what = "remote" /\ log[i].answer

DeclinedRemote(log) ==
    \E i \in DOMAIN log :
        log[i].api = "confirm" /\ log[i].what = "remote" /\ ~log[i].answer

\* C7: a step changes the remote branch refs only in a cleanup invocation in
\* which the user has confirmed the remote deletion, merged or not; in an
\* invocation in which the user declined, no step changes them.
C7_RemoteDeleteOnlyAfterConfirm ==
    [][/\ branches' # branches =>
             /\ cmd'.name = "cleanup"
             /\ ConfirmedRemote(calls')
             /\ branches' = branches \ {cmd'.branch}
       /\ DeclinedRemote(calls') => branches' = branches]_vars

C7_Witness_UnmergedDeleted ==
    /\ cmd.name = "cleanup"
    /\ ~cmd.is_merged
    /\ ConfirmedRemote(calls)
    /\ \E i \in CallsTo("ref.delete") : calls[i].status = 204
    /\ cmd.branch \notin branches

\* C8: in create, after the pull request was created, a failed or timed-out
\* notification post leaves the command ending with exit code 0 and the
\* created pull request on the provider as it was created.
C8_NotificationFailureHarmless ==
    \A i \in CallsTo("slack_post") :
        calls[i].outcome # "ok" =>
            /\ pc = "idle"
            /\ exit = 0
            /\ \E j \in CallsTo("create_pull") :
                  /\ j < i
                  /\ calls[j].status = 201
                  /\ calls[j].number \in DOMAIN repo
                  /\ repo[calls[j].number] =
                        RawPR(cmd.title, cmd.body,
                              [state |-> "open", merged |-> FALSE], "feat", cmd.draft)

C8_Witness_PostTimedOut ==
    /\ cmd.name = "create"
    /\ \E i \in CallsTo("slack_post") : calls[i].outcome = "timeout"
    /\ \E j \in CallsTo("create_pull") : calls[j].status = 201
    /\ exit = 0

\* C9: a change request is reported as not found exactly when the provider
\* answered 404 for the requested number, and the report carries the number.
C9_NotFoundOnlyForMissingNumber ==
    /\ \A i \in CallsTo("print") :
          calls[i].msg = "pr_not_found" =>
              \E j \in CallsTo("get_pull") :
                  calls[j].status = 404 /\ calls[j].number = calls[i].number
    /\ \A j \in CallsTo("get_pull") :
          calls[j].status = 404 =>
              \E i \in CallsTo("print") :
                  /\ calls[i].msg = "pr_not_found"
                  /\ calls[i].number = calls[j].number

RepoOps ==
    {"get_repo", "get_pull", "edit", "create_issue_comment", "get_files",
     "create_review", "get_contents", "create_pull", "issue_comment",
     "get_branch", "get_pulls", "ref.delete"}

PrologueFailure(e) ==
    \/ e.api = "load_config" /\ ~e.ok
    \/ e.api = "decrypt_token" /\ ~e.ok
    \/ e.api = "get_user" /\ e.status = 401

\* C10: every repository, change-request or branch call of an invocation
\* comes after the config was loaded, then the token decrypted, then the
\* identity check answered 200, in that order; a missing config, a failed
\* decryption or a 401 identity check is the last thing the invocation does,
\* and it ends with exit code 1.
C10_AuthBeforeProviderOps ==
    /\ \A i \in DOMAIN calls :
          calls[i].api \in RepoOps =>
              \E a, b, c \in 1..(i - 1) :
                  /\ a < b /\ b < c
                  /\ calls[a].api = "load_config" /\ calls[a].ok
                  /\ calls[b].api = "decrypt_token" /\ calls[b].ok
                  /\ calls[c].api = "get_user" /\ calls[c].status = 200
    /\ \A i \in DOMAIN calls :
          PrologueFailure(calls[i]) =>
              /\ i = Len(calls)
              /\ pc = "idle"
              /\ exit = 1
              /\ \A k \in DOMAIN calls : calls[k].api \notin RepoOps

C10_Witness_DecryptFailed ==
    /\ \E i \in CallsTo("decrypt_token") : ~calls[i].ok
    /\ \E i \in CallsTo("load_config") : calls[i].ok
    /\ cmd.config.token.key # keyFile
    /\ exit = 1

\* A slug that names an owner and a repository: two non-empty runs of
\* [\w-] around one "/".
WellFormedSlug(slug) ==
    \E k \in 2..(Len(slug) - 1) :
        /\ slug[k] = "/"
        /\ \A j \in (1..Len(slug)) \ {k} : IsSlugChar(slug[j])

ContextMissing(e) == e.api = "repo_context" /\ e.found # "match"

\* C11: when the repository argument is absent and context resolution
\* yields nothing (no git root, no origin, a url the pattern does not match),
\* that is the last thing the invocation does, it ends with exit code 1 and
\* has made no provider call; every provider call of an invocation is made
\* with a slug that names an owner and a repository.
C11_NoContextIsHardStop ==
    /\ \A i \in DOMAIN calls :
          ContextMissing(calls[i]) =>
              /\ i = Len(calls)
              /\ pc = "idle"
              /\ exit = 1
              /\ \A k \in DOMAIN calls : calls[k].api \notin RepoOps \cup {"get_user"}
    /\ \A i \in DOMAIN calls :
          calls[i].api \in RepoOps \cup {"get_user"} => WellFormedSlug(cmd.slug)

C11_Witness_UrlDoesNotMatch ==
    /\ \E i \in CallsTo("repo_context") : calls[i].found = "no_match"
    /\ ~cmd.repo_arg
    /\ cmd.slug = <<>>
    /\ exit = 1

\* C12: the key file is written only when it is absent, and only by the
\* encryption of a login; once it exists no step changes its contents.
C12_KeyCreatedOnceOnFirstEncryption ==
    [][keyFile' # keyFile => (keyFile = "absent" /\ pc = "login")]_vars

\* C13: whenever the process dies, each of the two files is afterwards
\* absent or complete (its previous or its new content): the key file is
\* never left cut short, and the config file, if it exists, is a complete
\* document.
C13_CrashLeavesFilesWhole ==
    /\ keyFile \in Keys \cup {"absent"}
    /\ configFile.exists => configFile.complete

====
